---- MODULE Spec2Model ----
(***************************************************************************)
(* The technical-problem conversation engine of the OCAP application       *)
(* (apps/ocap/services/manufacturing_assistant.py): one                    *)
(* ManufacturingTechnicalAssistant with its ConversationState, driven by   *)
(* process_user_message and start_new_problem.  The LLM chains and the     *)
(* solution lookup are collaborators whose outcome is an input of a turn.  *)
(* Texts are strings; a response is the tuple of its text fragments.       *)
(***************************************************************************)
EXTENDS Integers, Sequences, FiniteSets, TLC

\* ------------------------------------------------------------------ bounds
\* Turns a session is followed for.
MaxTurns == 4

\* Turns a session processes while its collaborators still fail, in the
\* specification where they recover.
MaxFailedTurns == 2

\* ------------------------------------------------------------ text helpers
UpperToLower ==
    [A |-> "a", B |-> "b", C |-> "c", D |-> "d", E |-> "e", F |-> "f",
     G |-> "g", H |-> "h", I |-> "i", J |-> "j", K |-> "k", L |-> "l",
     M |-> "m", N |-> "n", O |-> "o", P |-> "p", Q |-> "q", R |-> "r",
     S |-> "s", T |-> "t", U |-> "u", V |-> "v", W |-> "w", X |-> "x",
     Y |-> "y", Z |-> "z"]

\* str.lower()
RECURSIVE lower(_)
lower(s) ==
    IF s = "" THEN ""
    ELSE (IF Head(s) \in DOMAIN UpperToLower THEN UpperToLower[Head(s)]
          ELSE Head(s)) \o lower(Tail(s))

\* str.strip()
RECURSIVE lstrip(_)
lstrip(s) == IF s # "" /\ Head(s) = " " THEN lstrip(Tail(s)) ELSE s

RECURSIVE rstrip(_)
rstrip(s) ==
    IF s # "" /\ SubSeq(s, Len(s), Len(s)) = " "
    THEN rstrip(SubSeq(s, 1, Len(s) - 1)) ELSE s

strip(s) == rstrip(lstrip(s))

\* Python's `sub in s` on strings
Contains(sub, s) ==
    \E i \in 0..(Len(s) - Len(sub)) : SubSeq(s, i + 1, i + Len(sub)) = sub

\* any(keyword in intent for keyword in keywords)
AnyKeywordIn(keywords, intent) == \E k \in keywords : Contains(k, intent)

\* --------------------------------------------------------- ConversationPhase
GREETING == "greeting"
PROBLEM_IDENTIFICATION == "problem_identification"
CLARIFICATION == "clarification"
ANALYSIS == "analysis"
SOLUTION_GENERATION == "solution_generation"
COMPLETION == "completion"
POST_SOLUTION == "post_solution"
NEW_PROBLEM == "new_problem"

ConversationPhase ==
    {GREETING, PROBLEM_IDENTIFICATION, CLARIFICATION, ANALYSIS,
     SOLUTION_GENERATION, COMPLETION, POST_SOLUTION, NEW_PROBLEM}

\* ------------------------------------------------- slot schema and database
\* validation is `lambda x: len(x.strip()) >= min_len`
slot_config ==
    [operation    |-> [priority |-> 1, required |-> TRUE, min_len |-> 3],
     machine_type |-> [priority |-> 2, required |-> TRUE, min_len |-> 1],
     defect       |-> [priority |-> 3, required |-> TRUE, min_len |-> 3],
     error        |-> [priority |-> 4, required |-> TRUE, min_len |-> 3]]

technical_db ==
    [operations |->
        <<"Attach sleeve to body",
          "Attach sleeve to body barrel seam",
          "Raglon Sleeve attach",
          "Side Seam">>,
     machine_types |-> <<"FS", "OL">>,
     defects |-> <<"Broken stitch", "Raw edge">>,
     errors |->
        <<"Throat plate damage",
          "Manual trimming",
          "Looper damage / Looper/Spreader damage",
          "Incorrect timing",
          "Incorrect thread tension tightness",
          "Incorrect Foot pressure",
          "Incorrect foot height",
          "Incorrect feedog height",
          "High pressure vacuum cutters",
          "Blunt Needle",
          "Incorrect Foot shoe">>]

SeqToSet(q) == {q[i] : i \in 1..Len(q)}

\* The empty dict.
EmptyDict == [k \in {} |-> ""]

\* dict.update
DictUpdate(d, e) ==
    [k \in (DOMAIN d) \cup (DOMAIN e) |-> IF k \in DOMAIN e THEN e[k] ELSE d[k]]

\* ---------------------------------------------------------- slot handling
\* sorted(self.slot_config.items(), key=lambda x: x[1]["priority"])
SlotsByPriority ==
    CHOOSE q \in [1..Cardinality(DOMAIN slot_config) -> DOMAIN slot_config] :
        /\ \A i, j \in DOMAIN q : i # j => q[i] # q[j]
        /\ \A i, j \in DOMAIN q :
              i < j => slot_config[q[i]].priority <= slot_config[q[j]].priority

\* Variant: the missing slots listed by descending priority.
_get_missing_critical_slots_descending(slots) ==
    LET IsMissing(n) == slot_config[n].required /\ n \notin DOMAIN slots
        Reversed == [i \in DOMAIN SlotsByPriority |->
                        SlotsByPriority[Len(SlotsByPriority) + 1 - i]]
    IN  SelectSeq(Reversed, IsMissing)

_get_missing_critical_slots(slots) ==
    LET IsMissing(n) == slot_config[n].required /\ n \notin DOMAIN slots
    IN  SelectSeq(SlotsByPriority, IsMissing)

\* Result of _find_best_match: Optional[str]
NoMatch == [some |-> FALSE, value |-> ""]
Match(v) == [some |-> TRUE, value |-> v]

\* The exact-match loop: first db value equal to the user value, ignoring case.
RECURSIVE ExactMatch(_, _, _)
ExactMatch(user_value_lower, db_values, i) ==
    IF i > Len(db_values) THEN NoMatch
    ELSE IF user_value_lower = lower(db_values[i]) THEN Match(db_values[i])
    ELSE ExactMatch(user_value_lower, db_values, i + 1)

\* The score of one database value, as the fraction num/den:
\* len(db_value_lower) / len(user_value_lower) when the database value is
\* inside the user value, the inverse when the user value is inside the
\* database value, none otherwise.
Score(user_value_lower, db_value_lower) ==
    IF Contains(db_value_lower, user_value_lower)
    THEN [has |-> TRUE, num |-> Len(db_value_lower),
          den |-> Len(user_value_lower)]
    ELSE IF Contains(user_value_lower, db_value_lower)
    THEN [has |-> TRUE, num |-> Len(user_value_lower),
          den |-> Len(db_value_lower)]
    ELSE [has |-> FALSE, num |-> 0, den |-> 1]

\* `if score > best_score`: best is [match, num, den] with score num/den.
KeepBest(best, db_value, score) ==
    IF score.has /\ score.num * best.den > best.num * score.den
    THEN [match |-> Match(db_value), num |-> score.num, den |-> score.den]
    ELSE best

\* The partial-match loop.
RECURSIVE PartialMatch(_, _, _, _)
PartialMatch(user_value_lower, db_values, i, best) ==
    IF i > Len(db_values) THEN best
    ELSE PartialMatch(user_value_lower, db_values, i + 1,
                      KeepBest(best, db_values[i],
                               Score(user_value_lower, lower(db_values[i]))))

\* Variant: a score of exactly 0.3 is enough.
_find_best_match_at_threshold(user_value, db_values) ==
    LET user_value_lower == strip(lower(user_value))
        exact == ExactMatch(user_value_lower, db_values, 1)
        best == PartialMatch(user_value_lower, db_values, 1,
                             [match |-> NoMatch, num |-> 0, den |-> 1])
    IN  IF exact.some THEN exact
        ELSE IF 10 * best.num >= 3 * best.den THEN best.match
        ELSE NoMatch

_find_best_match(user_value, db_values) ==
    LET user_value_lower == strip(lower(user_value))
        exact == ExactMatch(user_value_lower, db_values, 1)
        best == PartialMatch(user_value_lower, db_values, 1,
                             [match |-> NoMatch, num |-> 0, den |-> 1])
    IN  IF exact.some THEN exact
        \* best_score > 0.3
        ELSE IF 10 * best.num > 3 * best.den THEN best.match
        ELSE NoMatch

\* Values a collaborator may put in a JSON result: a string, null, or a
\* value of another JSON type (number, list, object).
StrValue(s) == [kind |-> "str", text |-> s]
NoneValue == [kind |-> "none", text |-> ""]
OtherValue == [kind |-> "other", text |-> ""]

db_key(slot_name) ==
    IF slot_name # "machine_type" THEN slot_name \o "s" ELSE "machine_types"

\* config["validation"](value)
validation(slot_name, value) ==
    Len(strip(value)) >= slot_config[slot_name].min_len

\* `if value is not None and slot_name in self.slot_config`
IsValidatedKey(extracted, slot_name) ==
    extracted[slot_name].kind # "none" /\ slot_name \in DOMAIN slot_config

\* Variant: a string that matches no database value is checked by the slot's
\* validator and stored as it came.
ValidateSlot_keeping_raw(slot_name, value) ==
    IF value.kind # "str" THEN [outcome |-> "raise", value |-> ""]
    ELSE IF value.text \in SeqToSet(technical_db[db_key(slot_name)])
    THEN [outcome |-> "store", value |-> value.text]
    ELSE IF _find_best_match(value.text, technical_db[db_key(slot_name)]).some
    THEN [outcome |-> "store",
          value |-> _find_best_match(value.text,
                                     technical_db[db_key(slot_name)]).value]
    ELSE IF validation(slot_name, value.text)
    THEN [outcome |-> "store", value |-> value.text]
    ELSE [outcome |-> "skip", value |-> ""]

\* One iteration of the validation loop: outcome "store" (with the value),
\* "skip", or "raise" (an exception that leaves the loop).
ValidateSlot(slot_name, value) ==
    IF db_key(slot_name) \in DOMAIN technical_db
    THEN LET db_values == technical_db[db_key(slot_name)]
         IN  IF value.kind = "str" /\ value.text \in SeqToSet(db_values)
             THEN [outcome |-> "store", value |-> value.text]
             \* value.lower() of a non-string raises AttributeError
             ELSE IF value.kind # "str" THEN [outcome |-> "raise", value |-> ""]
             ELSE LET best_match == _find_best_match(value.text, db_values)
                  IN  IF best_match.some
                      THEN [outcome |-> "store", value |-> best_match.value]
                      ELSE [outcome |-> "skip", value |-> ""]
    \* the validation lambda runs in its own try/except
    ELSE IF value.kind = "str" /\ validation(slot_name, value.text)
         THEN [outcome |-> "store", value |-> value.text]
         ELSE [outcome |-> "skip", value |-> ""]

\* Variant: an exception in the validation loop keeps what was validated
\* before it.
_extract_slots_from_input_keeping_partial(extraction) ==
    IF ~extraction.ok THEN EmptyDict
    ELSE [k \in {j \in DOMAIN extraction.result :
                    /\ IsValidatedKey(extraction.result, j)
                    /\ ValidateSlot(j, extraction.result[j]).outcome = "store"}
             |-> ValidateSlot(k, extraction.result[k]).value]

\* Outcome of the slot_chain collaborator: failure, or the parsed mapping.
\* Returns validated_slots; any exception inside gives {}.
_extract_slots_from_input(extraction) ==
    IF ~extraction.ok THEN EmptyDict
    ELSE
      LET extracted == extraction.result
          checked == {k \in DOMAIN extracted : IsValidatedKey(extracted, k)}
          stored == {k \in checked :
                        ValidateSlot(k, extracted[k]).outcome = "store"}
      IN  IF \E k \in checked : ValidateSlot(k, extracted[k]).outcome = "raise"
          THEN EmptyDict
          ELSE [k \in stored |-> ValidateSlot(k, extracted[k]).value]

\* ------------------------------------------------------ collaborator inputs
\* Intent labels the analyser may answer with.
IntentLabels == {"problem_solving", "explain", "inquiry"}

IntentFailure == [ok |-> FALSE, shape |-> "none", intent |-> ""]

\* The intent chain fails, or returns a mapping (what a JSON parser yields)
\* or an object with attributes (the other shape the code provides for).
IntentOutcomes ==
    {IntentFailure} \cup
    [ok : {TRUE}, shape : {"dict", "object"}, intent : IntentLabels]

\* Keys of an extraction result: the four slots and one key outside the schema.
ExtractorKeys == (DOMAIN slot_config) \cup {"confidence"}

\* Values proposed for a key: database values ("Side Seam", "FS", "OL"),
\* values that match one approximately ("raw edge issue", "needle"), a value
\* that matches nothing ("sleeve" scores exactly 0.3 against "Raglon Sleeve
\* attach"), and a value for the key outside the schema.
Proposals ==
    [operation    |-> {StrValue("Side Seam"), StrValue("sleeve")},
     machine_type |-> {StrValue("FS"), StrValue("OL")},
     defect       |-> {StrValue("raw edge issue")},
     error        |-> {StrValue("needle")},
     confidence   |-> {StrValue("high")}]

\* An extraction result: null for every key that `named` does not give.
Report(named) ==
    [k \in ExtractorKeys |-> IF k \in DOMAIN named THEN named[k] ELSE NoneValue]

Mentioned(result) == {k \in DOMAIN result : result[k].kind # "none"}

\* The utterance that names all four slots with database values.
FullReport ==
    Report([operation |-> StrValue("Side Seam"),
            machine_type |-> StrValue("FS"),
            defect |-> StrValue("Raw edge"),
            error |-> StrValue("Blunt Needle")])

\* A result with a database value next to a non-string value.
MixedReport ==
    Report([operation |-> StrValue("Side Seam"), error |-> OtherValue])

\* Nothing named, one key named, the full report, the mixed report.
ExtractorResults ==
    {Report(EmptyDict), FullReport, MixedReport} \cup
    UNION {{Report([j \in {k} |-> v]) : v \in Proposals[k]} :
              k \in ExtractorKeys}

ExtractionFailure == [ok |-> FALSE, result |-> EmptyDict]

ExtractionOutcomes ==
    {ExtractionFailure} \cup [ok : {TRUE}, result : ExtractorResults]

LookupOutcomes == {"found", "not_found", "raises"}

\* _extract_slots_from_input on each outcome of the extractor, tabulated
\* (the @@ makes the table an explicit function, evaluated once).
ValidatedSlots ==
    [extraction \in ExtractionOutcomes |-> _extract_slots_from_input(extraction)]
        @@ <<>>

\* ------------------------------------------------------ conversation state
\* ConversationState() as constructed by __init__
NewConversationState ==
    [slots |-> EmptyDict,
     conversation_history |-> <<>>,
     current_phase |-> GREETING,
     clarifications_needed |-> <<>>,
     turn_count |-> 0,
     solved_problems |-> <<>>,
     problem_count |-> 0]

NewProblemKeywords == {"new", "another", "different", "problem", "issue"}
ClarifyKeywords == {"clarify", "explain", "more", "detail"}

\* Variant: two missing slots already count as too many to clarify.
_determine_conversation_phase_early_identification(st, intent_analysis) ==
    IF st.current_phase = POST_SOLUTION
    THEN IF AnyKeywordIn(NewProblemKeywords, lower(intent_analysis.intent))
         THEN NEW_PROBLEM
         ELSE IF AnyKeywordIn(ClarifyKeywords, lower(intent_analysis.intent))
         THEN CLARIFICATION
         ELSE POST_SOLUTION
    ELSE IF st.current_phase = COMPLETION THEN POST_SOLUTION
    ELSE IF st.current_phase # NEW_PROBLEM /\ st.turn_count <= 1 THEN GREETING
    ELSE IF Len(_get_missing_critical_slots(st.slots)) >= 2
    THEN PROBLEM_IDENTIFICATION
    ELSE IF Len(_get_missing_critical_slots(st.slots)) > 0 THEN CLARIFICATION
    ELSE ANALYSIS

\* Variant: the greeting ends before the first turn is counted.
_determine_conversation_phase_without_greeting(st, intent_analysis) ==
    IF st.current_phase = POST_SOLUTION
    THEN IF AnyKeywordIn(NewProblemKeywords, lower(intent_analysis.intent))
         THEN NEW_PROBLEM
         ELSE IF AnyKeywordIn(ClarifyKeywords, lower(intent_analysis.intent))
         THEN CLARIFICATION
         ELSE POST_SOLUTION
    ELSE IF st.current_phase = COMPLETION THEN POST_SOLUTION
    ELSE IF st.current_phase # NEW_PROBLEM /\ st.turn_count < 1 THEN GREETING
    ELSE IF Len(_get_missing_critical_slots(st.slots)) > 2
    THEN PROBLEM_IDENTIFICATION
    ELSE IF Len(_get_missing_critical_slots(st.slots)) > 0 THEN CLARIFICATION
    ELSE ANALYSIS

\* intent_analysis is the mapping handed over by the caller
_determine_conversation_phase(st, intent_analysis) ==
    LET missing_slots == _get_missing_critical_slots(st.slots)
        current_phase == st.current_phase
        intent == lower(intent_analysis.intent)
    IN  IF current_phase = POST_SOLUTION
        THEN IF AnyKeywordIn(NewProblemKeywords, intent) THEN NEW_PROBLEM
             ELSE IF AnyKeywordIn(ClarifyKeywords, intent) THEN CLARIFICATION
             ELSE POST_SOLUTION
        ELSE IF current_phase = COMPLETION THEN POST_SOLUTION
        ELSE IF current_phase = NEW_PROBLEM
        THEN IF Len(missing_slots) > 2 THEN PROBLEM_IDENTIFICATION
             ELSE IF Len(missing_slots) > 0 THEN CLARIFICATION
             ELSE ANALYSIS
        ELSE IF st.turn_count <= 1 THEN GREETING
        ELSE IF Len(missing_slots) > 2 THEN PROBLEM_IDENTIFICATION
        ELSE IF Len(missing_slots) > 0 THEN CLARIFICATION
        ELSE IF st.clarifications_needed # <<>> THEN CLARIFICATION
        ELSE IF Len(missing_slots) = 0 THEN ANALYSIS
        ELSE PROBLEM_IDENTIFICATION

\* Responses are tuples of text fragments.
_generate_fallback_response(st) ==
    LET missing == _get_missing_critical_slots(st.slots)
    IN  IF missing = <<>> THEN <<"Perfect! I have all the information needed.">>
        ELSE <<"question: " \o missing[1]>>

\* try: determine and store the phase, call the response chain;
\* except: the fallback response (the phase stays stored).
\* Variant: a failed response chain is invoked a second time before the
\* fallback is used.
ComposeResponse_retrying(st1, response_ok) ==
    [st |-> st1,
     calls |-> IF response_ok THEN <<"response_chain">>
               ELSE <<"response_chain", "response_chain">>,
     failed |-> IF response_ok THEN {} ELSE {"response_chain"},
     response |-> IF response_ok THEN <<"composed response">>
                  ELSE _generate_fallback_response(st1)]

ComposeResponse(st1, response_ok) ==
    [st |-> st1,
     calls |-> <<"response_chain">>,
     failed |-> IF response_ok THEN {} ELSE {"response_chain"},
     response |-> IF response_ok THEN <<"composed response">>
                  ELSE _generate_fallback_response(st1)]

_generate_intelligent_response(st, intent_analysis, response_ok) ==
    ComposeResponse(
        [st EXCEPT !.current_phase =
                       _determine_conversation_phase(st, intent_analysis)],
        response_ok)

\* Variant: f"PROB{problem_count}"
problem_id_unpadded(n) ==
    "PROB" \o ToString(n)

\* f"PROB{problem_count:03d}"
problem_id(n) ==
    "PROB" \o (IF n < 10 THEN "00" ELSE IF n < 100 THEN "0" ELSE "")
           \o ToString(n)

\* The clock reading is kept as the format it is written in.
timestamp == "%Y-%m-%d %H:%M:%S"

post_solution_msg ==
    "Do you have any other technical problems I can help you solve, or do you need clarification on this solution?"

canned_solution ==
    "Based on the information provided, I recommend checking the machine settings and components. Please follow standard troubleshooting procedures."

canned_follow_up == "Do you have any other technical problems I can help with?"

\* lookup is the outcome of db_service.retrieve_technical_solutions:
\* "found", "not_found" or "raises"; none of them leaves the function.
_retrieve_database_context(st, lookup) ==
    IF st.slots = EmptyDict
    THEN [calls |-> <<>>, failed |-> {},
          context |-> "No database context available"]
    ELSE [calls |-> <<"db_service">>,
          failed |-> IF lookup = "raises" THEN {"db_service"} ELSE {},
          context |-> IF lookup = "found" THEN "Found matching technical solution"
                      ELSE IF lookup = "not_found"
                      THEN "No matching technical solution found"
                      ELSE "Database retrieval error"]

\* Variant: the record is appended once the solution text has been composed.
_generate_technical_solution_late_append(st, lookup, solution_ok) ==
    [st |-> [st EXCEPT !.problem_count = @ + 1,
                       !.solved_problems =
                           IF solution_ok
                           THEN Append(@, DictUpdate(st.slots,
                                    [problem_id |-> problem_id(st.problem_count + 1),
                                     timestamp |-> timestamp]))
                           ELSE @],
     calls |-> _retrieve_database_context(st, lookup).calls
               \o <<"solution_chain">>,
     failed |-> _retrieve_database_context(st, lookup).failed \cup
                (IF solution_ok THEN {} ELSE {"solution_chain"}),
     response |-> IF solution_ok
                  THEN <<"composed solution", post_solution_msg>>
                  ELSE <<canned_solution, canned_follow_up>>]

_generate_technical_solution(st, lookup, solution_ok) ==
    LET database_context == _retrieve_database_context(st, lookup)
        count == st.problem_count + 1
        problem_details ==
            DictUpdate(st.slots, [problem_id |-> problem_id(count),
                                  timestamp |-> timestamp])
        st1 == [st EXCEPT !.problem_count = count,
                          !.solved_problems = Append(@, problem_details)]
    IN  [st |-> st1,
         calls |-> database_context.calls \o <<"solution_chain">>,
         failed |-> database_context.failed \cup
                    (IF solution_ok THEN {} ELSE {"solution_chain"}),
         response |-> IF solution_ok
                      THEN <<"composed solution", post_solution_msg>>
                      ELSE <<canned_solution, canned_follow_up>>]

\* History entries: the utterance of turn n, the response returned in turn n.
UserEntry(n) == [by |-> "user", turn |-> n]
ResponseEntry(n) == [by |-> "assistant", turn |-> n]

\* history[-6:]
RecentHistory(history) ==
    SubSeq(history, IF Len(history) > 6 THEN Len(history) - 5 ELSE 1,
           Len(history))

\* Lines 268-280: the lines of the context, each with its speaker label;
\* `fresh` stands for the fixed text returned for an empty history.
_get_conversation_context(st) ==
    [fresh |-> st.conversation_history = <<>>,
     lines |-> [i \in 1..Len(RecentHistory(st.conversation_history)) |->
                  [speaker |-> IF (i - 1) % 2 = 0 THEN "Technician"
                               ELSE "Support",
                   msg |-> RecentHistory(st.conversation_history)[i]]]]

\* Variant: the handler logs and re-raises.
TopLevelExcept_reraise(st, calls, failed) ==
    [st |-> st, calls |-> calls, failed |-> failed, raised |-> TRUE,
     response |-> <<>>]

\* Variant: the handler closes the conversation.
TopLevelExcept_closing(st, calls, failed) ==
    [st |-> [st EXCEPT !.current_phase = COMPLETION],
     calls |-> calls, failed |-> failed, raised |-> FALSE,
     response |-> <<"I'm having some technical difficulties with my advanced features">>]

\* Variant: the handler starts the conversation over, keeping the turn.
TopLevelExcept_resetting(st, calls, failed) ==
    [st |-> [NewConversationState EXCEPT
                 !.turn_count = st.turn_count,
                 !.conversation_history = st.conversation_history],
     calls |-> calls, failed |-> failed, raised |-> FALSE,
     response |-> <<"I'm having some technical difficulties with my advanced features">>]

\* Variant: a turn that failed is not counted.
TopLevelExcept_uncounted(st, calls, failed) ==
    [st |-> [st EXCEPT !.turn_count = @ - 1],
     calls |-> calls, failed |-> failed, raised |-> FALSE,
     response |-> <<"I'm having some technical difficulties with my advanced features">>]

\* The handler of the outer `except Exception` of process_user_message.
TopLevelExcept(st, calls, failed) ==
    [st |-> st,
     calls |-> calls,
     failed |-> failed,
     raised |-> FALSE,
     response |-> IF st.turn_count <= 1
                  THEN <<"Welcome to Manufacturing Technical Support! I'm experiencing some technical issues">>
                  ELSE <<"I'm having some technical difficulties with my advanced features">>]

\* Lines 543-544: count the turn, record the utterance.
BeginTurn(st0) ==
    [st0 EXCEPT !.turn_count = @ + 1,
                !.conversation_history = Append(@, UserEntry(st0.turn_count + 1))]

\* Variant: the request resets the slots and leaves the phase to the phase
\* machine.
HandleNewProblemRequest_keeping_phase(st1, intent_analysis) ==
    IF /\ st1.current_phase \in {POST_SOLUTION, COMPLETION}
       /\ intent_analysis.shape = "object"
       /\ AnyKeywordIn(NewProblemKeywords, lower(intent_analysis.intent))
    THEN [st1 EXCEPT !.slots = EmptyDict]
    ELSE st1

\* Lines 566-575: a new-problem request after a solution resets the slots.
\* `intent` is read only from an object with that attribute.
HandleNewProblemRequest(st1, intent_analysis) ==
    LET current_phase == st1.current_phase
        intent == IF intent_analysis.shape = "object"
                  THEN lower(intent_analysis.intent) ELSE ""
    IN  IF /\ current_phase \in {POST_SOLUTION, COMPLETION}
           /\ AnyKeywordIn(NewProblemKeywords, intent)
        THEN [st1 EXCEPT !.slots = EmptyDict, !.current_phase = NEW_PROBLEM]
        ELSE st1

\* Line 578: extraction is skipped in a turn that started in POST_SOLUTION.
Extracts(current_phase) == current_phase \notin {POST_SOLUTION}

\* Variant: the extractor's strings are merged as they come.
MergeExtraction_unvalidated(st2, current_phase, extraction) ==
    IF Extracts(current_phase) /\ extraction.ok
    THEN [st2 EXCEPT !.slots = DictUpdate(@,
             [k \in {j \in DOMAIN extraction.result :
                        extraction.result[j].kind = "str"}
                 |-> extraction.result[k].text])]
    ELSE st2

\* Variant: the validated slots replace the slots collected so far.
MergeExtraction_replacing(st2, current_phase, extraction) ==
    IF Extracts(current_phase) /\ ValidatedSlots[extraction] # EmptyDict
    THEN [st2 EXCEPT !.slots = ValidatedSlots[extraction]]
    ELSE st2

\* Lines 578-585: merge what the extraction validated.
MergeExtraction(st2, current_phase, extraction) ==
    LET extracted_slots == IF Extracts(current_phase)
                           THEN ValidatedSlots[extraction]
                           ELSE EmptyDict
    IN  IF extracted_slots # EmptyDict
        THEN [st2 EXCEPT !.slots = DictUpdate(@, extracted_slots)]
        ELSE st2

\* Variant: the solution is generated only once the phase machine has
\* reported ANALYSIS.
Synthesizes_in_analysis_only(st3, current_phase) ==
    /\ _get_missing_critical_slots(st3.slots) = <<>>
    /\ current_phase = ANALYSIS

\* Line 595: the branch that generates the technical solution.
Synthesizes(st3, current_phase) ==
    /\ current_phase # POST_SOLUTION
    /\ _get_missing_critical_slots(st3.slots) = <<>>
    /\ current_phase \notin {COMPLETION, POST_SOLUTION}

\* in: the outcomes of the collaborators of this turn
\*   intent     [ok, shape ("dict" or "object"), intent]
\*   extraction [ok, result]
\*   response_ok, lookup, solution_ok
\* Lines 588-603: the response of the turn, by the phase the turn started in
\* and the slots collected so far.
GenerateResponse(st3, current_phase, in) ==
    IF current_phase = POST_SOLUTION
    \* intent_analysis.dict() of an object, the mapping itself otherwise
    THEN _generate_intelligent_response(st3, [intent |-> in.intent.intent],
                                        in.response_ok)
    ELSE IF Synthesizes(st3, current_phase)
    THEN [_generate_technical_solution(st3, in.lookup, in.solution_ok)
              EXCEPT !.st.current_phase = COMPLETION]
    ELSE _generate_intelligent_response(st3, [intent |-> in.intent.intent],
                                        in.response_ok)

\* Lines 606-608: record the response in the history and return it.
ReturnResponse(step, current_phase, in) ==
    [st |-> [step.st EXCEPT !.conversation_history =
                               Append(@, ResponseEntry(step.st.turn_count))],
     calls |-> <<"intent_chain">>
               \o (IF Extracts(current_phase) THEN <<"slot_chain">> ELSE <<>>)
               \o step.calls,
     failed |-> (IF Extracts(current_phase) /\ ~in.extraction.ok
                 THEN {"slot_chain"} ELSE {})
                \cup step.failed,
     raised |-> FALSE,
     response |-> step.response]

\* The body of the second try block, from the state after lines 543-544.
ProcessFrom(st1, in) ==
    IF ~in.intent.ok
    THEN TopLevelExcept(st1, <<"intent_chain">>, {"intent_chain"})
    ELSE ReturnResponse(
             GenerateResponse(
                 MergeExtraction(HandleNewProblemRequest(st1, in.intent),
                                 st1.current_phase, in.extraction),
                 st1.current_phase, in),
             st1.current_phase, in)

process_user_message(st0, in) == ProcessFrom(BeginTurn(st0), in)

\* Variant: the new problem starts with an empty ledger.
start_new_problem_forgetting(st) ==
    [st EXCEPT !.slots = EmptyDict,
               !.current_phase = NEW_PROBLEM,
               !.clarifications_needed = <<>>,
               !.solved_problems = <<>>]

start_new_problem(st) ==
    [st EXCEPT !.slots = EmptyDict,
               !.current_phase = NEW_PROBLEM,
               !.clarifications_needed = <<>>]

\* get_conversation_summary
get_conversation_summary(st) ==
    [collected_slots |-> st.slots,
     missing_slots |-> _get_missing_critical_slots(st.slots),
     conversation_phase |-> st.current_phase,
     turn_count |-> st.turn_count,
     solved_problems |-> Len(st.solved_problems),
     problem_count |-> st.problem_count]

\* ------------------------------------------------------------ state machine
VARIABLES
    conversation_state,  \* self.conversation_state of the assistant
    last,                \* the last call on the assistant and what it returned
    healthy,             \* the collaborators have stopped failing
    active_connections,  \* chat.py: connection id -> the entry stored for it
    handlers             \* the local variables of each running
                         \* manufacturing_chat_websocket call

vars == <<conversation_state, last, healthy, active_connections, handlers>>

\* No websocket has connected.
NoConnections == <<>>

NoCall ==
    [op |-> "__init__", pre_phase |-> GREETING, intent |-> IntentFailure,
     extraction |-> ExtractionFailure, calls |-> <<>>, failed |-> {},
     response |-> <<>>, raised |-> FALSE]

Init ==
    /\ conversation_state = NewConversationState
    /\ last = NoCall
    /\ healthy = FALSE
    /\ active_connections = NoConnections
    /\ handlers = NoConnections

\* The collaborator outcomes a turn from state st can consume: an outcome is
\* drawn only for a collaborator the turn calls.
InputsWith(intent, extraction, synth) ==
    [intent : {intent},
     extraction : {extraction},
     response_ok : IF intent.ok /\ ~synth THEN BOOLEAN ELSE {TRUE},
     lookup : IF synth THEN LookupOutcomes ELSE {"not_found"},
     solution_ok : IF synth THEN BOOLEAN ELSE {TRUE}]

\* The inputs of a turn from state st for the given outcomes of the intent
\* analysis and of the extraction.
InputsFrom(st, intents, extractions) ==
    UNION { UNION { UNION {
        InputsWith(intent, extraction, synth) :
        synth \in {/\ intent.ok
                   /\ Synthesizes(
                          MergeExtraction(
                              HandleNewProblemRequest(BeginTurn(st), intent),
                              st.current_phase, extraction),
                          st.current_phase)} } :
        extraction \in (IF intent.ok /\ Extracts(st.current_phase)
                        THEN extractions ELSE {ExtractionFailure}) } :
        intent \in intents }

TurnInputs(st) == InputsFrom(st, IntentOutcomes, ExtractionOutcomes)

\* The call returns r: the state it leaves and the record of the call.
Returned(r, in) ==
    /\ conversation_state' = r.st
    /\ last' = [op |-> "process_user_message",
                pre_phase |-> conversation_state.current_phase,
                intent |-> in.intent,
                extraction |-> in.extraction,
                calls |-> r.calls,
                failed |-> r.failed,
                response |-> r.response,
                raised |-> r.raised]

\* One call of process_user_message with the collaborator outcomes `in`.
Turn(in) ==
    \E r \in {process_user_message(conversation_state, in)} : Returned(r, in)

ProcessUserMessage ==
    /\ conversation_state.turn_count < MaxTurns
    /\ \E in \in TurnInputs(conversation_state) : Turn(in)
    /\ UNCHANGED <<healthy, active_connections, handlers>>

StartNewProblem ==
    /\ conversation_state' = start_new_problem(conversation_state)
    /\ last' = [NoCall EXCEPT !.op = "start_new_problem",
                              !.pre_phase = conversation_state.current_phase]
    /\ UNCHANGED <<healthy, active_connections, handlers>>

ResetConversation ==
    /\ conversation_state' = NewConversationState
    /\ last' = [NoCall EXCEPT !.op = "reset_conversation",
                              !.pre_phase = conversation_state.current_phase]
    /\ UNCHANGED <<healthy, active_connections, handlers>>

Next == ProcessUserMessage \/ StartNewProblem \/ ResetConversation

Spec == Init /\ [][Next]_vars

\* ------------------------------------- the collaborators stop failing
\* Outcomes of a turn that ends in the apology of the top-level handler or
\* in the fallback response.
FailingInputs(st) ==
    {in \in TurnInputs(st) : ~in.intent.ok \/ ~in.response_ok}

\* Outcomes of a turn in which every collaborator that is called succeeds
\* and the utterance yields database values for all four slots.
HealthyInputs(st) ==
    {in \in InputsFrom(st, IntentOutcomes \ {IntentFailure},
                       {[ok |-> TRUE, result |-> FullReport]}) :
        in.response_ok /\ in.solution_ok /\ in.lookup # "raises"}

\* process_user_message while collaborators fail.
FailingTurn ==
    /\ ~healthy
    /\ conversation_state.turn_count < MaxFailedTurns
    /\ \E in \in FailingInputs(conversation_state) : Turn(in)
    /\ UNCHANGED <<healthy, active_connections, handlers>>

\* From now on no collaborator call fails.
BecomeHealthy ==
    /\ ~healthy
    /\ conversation_state.turn_count < MaxTurns
    /\ healthy' = TRUE
    /\ UNCHANGED <<conversation_state, last, active_connections, handlers>>

\* process_user_message while the collaborators are healthy.
HealthyTurn ==
    /\ healthy
    /\ conversation_state.turn_count < MaxTurns
    /\ \E in \in HealthyInputs(conversation_state) : Turn(in)
    /\ UNCHANGED <<healthy, active_connections, handlers>>

LiveNext == FailingTurn \/ BecomeHealthy \/ HealthyTurn

\* The user keeps talking: a turn that can be processed is processed.
LiveSpec == Init /\ [][LiveNext]_vars /\ WF_vars(HealthyTurn)

\* ------------------------------- the assistant as the chat route drives it
MaxSummaryCalls == 2

\* Variant: asking for the summary counts as a turn.
SummaryCall_counting(st) ==
    [st |-> [st EXCEPT !.turn_count = @ + 1],
     result |-> get_conversation_summary(st)]

\* A call of get_conversation_summary on state st: the state it leaves and
\* the summary it returns.
SummaryCall(st) ==
    [st |-> st, result |-> get_conversation_summary(st)]

\* The summary calls made since the last turn, this one included.
SummaryCallsSoFar ==
    IF last.op = "get_conversation_summary"
    THEN Append(last.calls, "get_conversation_summary")
    ELSE <<"get_conversation_summary">>

SummaryReturned(r) ==
    /\ conversation_state' = r.st
    /\ last' = [NoCall EXCEPT
                   !.op = "get_conversation_summary",
                   !.pre_phase = conversation_state.current_phase,
                   !.calls = SummaryCallsSoFar,
                   !.response = <<r.result>>]

\* The route asks for the summary after a turn; the monitoring endpoint
\* asks for it at any time.
GetConversationSummary ==
    /\ Len(SummaryCallsSoFar) <= MaxSummaryCalls
    /\ \E r \in {SummaryCall(conversation_state)} : SummaryReturned(r)
    /\ UNCHANGED <<healthy, active_connections, handlers>>

\* The route calls process_user_message and get_conversation_summary only.
RouteNext == ProcessUserMessage \/ GetConversationSummary

RouteSpec == Init /\ [][RouteNext]_vars

\* ---------------------------------------- several sessions on the route
MAX_ACTIVE_CONNECTIONS == 50
MaxSessionTurns == 2

WebSockets == {"ws1", "ws2"}

\* datetime.now() as formatted into the connection id: two calls may read
\* the same value.
ClockReadings == {"conn_1", "conn_2"}

SessionIntents ==
    {IntentFailure,
     [ok |-> TRUE, shape |-> "object", intent |-> "problem_solving"]}

SessionExtractions ==
    {ExtractionFailure, [ok |-> TRUE, result |-> FullReport]}

NoInput ==
    [intent |-> IntentFailure, extraction |-> ExtractionFailure,
     response_ok |-> TRUE, lookup |-> "not_found", solution_ok |-> TRUE]

\* The locals of a handler whose turn has returned and that sends the
\* response, chat.py line 98.
Sending(st) ==
    [assistant |-> st, pc |-> "send", current_phase |-> GREETING,
     input |-> NoInput]

\* The locals of a handler whose turn waits for the database at line 435.
Retrieving(st3, current_phase, in) ==
    [assistant |-> st3, pc |-> "retrieve", current_phase |-> current_phase,
     input |-> in]

\* Variant: the handler takes the assistant from the entry stored under its
\* connection id.
TurnAssistant_from_registry(ws) ==
    IF handlers[ws].connection_id \in DOMAIN active_connections
    THEN active_connections[handlers[ws].connection_id].assistant
    ELSE ws

\* The assistant a handler works on: its local variable, lines 36 and 76.
\* An assistant is named by the websocket of the handler that created it.
TurnAssistant(ws) ==
    ws

\* The state of process_user_message when control first leaves it.
MergedState(st0, in) ==
    MergeExtraction(HandleNewProblemRequest(BeginTurn(st0), in.intent),
                    st0.current_phase, in.extraction)

\* process_user_message up to its return, or up to the await of the
\* database lookup when the turn generates a solution.
StartTurn(st0, in) ==
    IF in.intent.ok /\ Synthesizes(MergedState(st0, in), st0.current_phase)
    THEN Retrieving(MergedState(st0, in), st0.current_phase, in)
    ELSE Sending(process_user_message(st0, in).st)

\* process_user_message from the await of the database lookup on.
ResumeTurn(st3, current_phase, in) ==
    Sending(ReturnResponse(GenerateResponse(st3, current_phase, in),
                           current_phase, in).st)

\* The handler of ws moves to r, working on assistant t; step tells the call
\* of process_user_message from its continuation after the lookup.
HandlerMoves(ws, t, r, step) ==
    /\ handlers' = [handlers EXCEPT ![t].assistant = r.assistant,
                                    ![ws].pc = r.pc,
                                    ![ws].current_phase = r.current_phase,
                                    ![ws].input = r.input]
    /\ last' = [op |-> "process_user_message", websocket |-> ws,
                step |-> step]
    /\ UNCHANGED <<conversation_state, healthy, active_connections>>

\* The locals of a handler that passed the limit test and waits in
\* websocket.accept(): no connection id and no assistant yet.
Accepting ==
    [connection_id |-> "", assistant |-> NewConversationState,
     pc |-> "accept", current_phase |-> GREETING, input |-> NoInput]

\* chat.py line 24: the limit test of an arriving connection.
LimitReached ==
    Cardinality(DOMAIN active_connections) >= MAX_ACTIVE_CONNECTIONS

\* chat.py lines 24-28: a connection arrives below the limit and the
\* handler awaits websocket.accept().
Arrive ==
    \E ws \in WebSockets \ DOMAIN handlers :
        /\ ~LimitReached
        /\ handlers' = [h \in DOMAIN handlers \cup {ws} |->
                           IF h = ws THEN Accepting ELSE handlers[h]]
        /\ last' = [op |-> "arrive", websocket |-> ws]
        /\ UNCHANGED <<conversation_state, healthy, active_connections>>

\* chat.py lines 24-26: a connection arrives at the limit; it is closed with
\* code 1008 and the handler returns.
Refuse ==
    \E ws \in WebSockets \ DOMAIN handlers :
        /\ LimitReached
        /\ last' = [op |-> "close", websocket |-> ws, code |-> 1008]
        /\ UNCHANGED <<conversation_state, healthy, active_connections,
                       handlers>>

\* chat.py lines 31-61: after accept() the handler names the connection,
\* creates its assistant, stores both and sends the welcome message.
Register ==
    \E ws \in DOMAIN handlers, connection_id \in ClockReadings :
        /\ handlers[ws].pc = "accept"
        /\ handlers' =
              [handlers EXCEPT ![ws] =
                  [connection_id |-> connection_id,
                   assistant |-> NewConversationState,
                   pc |-> "send", current_phase |-> GREETING,
                   input |-> NoInput]]
        /\ active_connections' =
              [c \in DOMAIN active_connections \cup {connection_id} |->
                  IF c = connection_id
                  THEN [websocket |-> ws, assistant |-> ws]
                  ELSE active_connections[c]]
        /\ last' = [op |-> "register", websocket |-> ws]
        /\ UNCHANGED <<conversation_state, healthy>>

\* chat.py lines 34-44: the constructor of the assistant raises; the
\* connection is closed with code 1011 and nothing is stored.
AssistantFails ==
    \E ws \in DOMAIN handlers :
        /\ handlers[ws].pc = "accept"
        /\ handlers' = [h \in DOMAIN handlers \ {ws} |-> handlers[h]]
        /\ last' = [op |-> "close", websocket |-> ws, code |-> 1011]
        /\ UNCHANGED <<conversation_state, healthy, active_connections>>

\* Variant: every message is read and handled as soon as it arrives.
AwaitsMessage_always(h) ==
    h.pc \in {"receive", "retrieve", "send"}

\* chat.py lines 64-66: the handler reads a message only in receive_text, at
\* the top of its loop.
AwaitsMessage(h) ==
    h.pc = "receive"

\* chat.py lines 66-76: a message arrives and process_user_message runs to
\* its first suspension.
SessionTurn ==
    \E ws \in DOMAIN handlers :
        /\ AwaitsMessage(handlers[ws])
        /\ \E t \in {TurnAssistant(ws)} :
              /\ handlers[t].assistant.turn_count < MaxSessionTurns
              /\ \E in \in InputsFrom(handlers[t].assistant, SessionIntents,
                                      SessionExtractions) :
                    \E r \in {StartTurn(handlers[t].assistant, in)} :
                        HandlerMoves(ws, t, r, "call")

\* The database lookup returns and the turn runs to its end.
SessionResume ==
    \E ws \in DOMAIN handlers :
        /\ handlers[ws].pc = "retrieve"
        /\ \E t \in {TurnAssistant(ws)} :
              \E r \in {ResumeTurn(handlers[t].assistant,
                                    handlers[ws].current_phase,
                                    handlers[ws].input)} :
                  HandlerMoves(ws, t, r, "resume")

\* chat.py lines 61 and 98: the message has been sent and the handler goes
\* to the top of its loop.
SessionSend ==
    \E ws \in DOMAIN handlers :
        /\ handlers[ws].pc = "send"
        /\ handlers' = [handlers EXCEPT ![ws].pc = "receive"]
        /\ last' = [op |-> "send_text", websocket |-> ws]
        /\ UNCHANGED <<conversation_state, healthy, active_connections>>

\* chat.py lines 130-153: the client goes away while the handler receives
\* or sends; the entry under the handler's connection id is deleted.
Disconnect ==
    \E ws \in DOMAIN handlers :
        /\ handlers[ws].pc \in {"receive", "send"}
        /\ active_connections' =
              [c \in DOMAIN active_connections \ {handlers[ws].connection_id}
                  |-> active_connections[c]]
        /\ handlers' = [h \in DOMAIN handlers \ {ws} |-> handlers[h]]
        /\ last' = [op |-> "disconnect", websocket |-> ws]
        /\ UNCHANGED <<conversation_state, healthy>>

SessionNext ==
    \/ Arrive \/ Register \/ AssistantFails
    \/ SessionTurn \/ SessionResume \/ SessionSend \/ Disconnect

SessionSpec == Init /\ [][SessionNext]_vars

\* ------------------------------------------- admission of connections
\* Connections registered earlier, by handlers that stay in receive_text.
EarlierConnections(n) ==
    [c \in {"conn_0" \o ToString(i) : i \in 1..n} |->
        [websocket |-> c, assistant |-> c]]

\* The route with the registry two, one or no entry below the limit.
AdmissionInit ==
    /\ conversation_state = NewConversationState
    /\ last = NoCall
    /\ healthy = FALSE
    /\ handlers = NoConnections
    /\ active_connections \in
          {EarlierConnections(n) :
              n \in (MAX_ACTIVE_CONNECTIONS - 2)..MAX_ACTIVE_CONNECTIONS}

AdmissionNext ==
    Arrive \/ Refuse \/ Register \/ AssistantFails \/ SessionSend \/ Disconnect

AdmissionSpec == AdmissionInit /\ [][AdmissionNext]_vars

\* ------------------------------- dociq: ExtractionService._calculate_similarity
\* A float result as the fraction num/den.
Ratio(num, den) == [num |-> num, den |-> den]

\* max(x, y) of two ratios; the first is kept when they are equal.
MaxRatio(x, y) == IF y.num * x.den > x.num * y.den THEN y ELSE x

\* set(text.split()): the words between blanks.
RECURSIVE SplitWords(_, _, _)
SplitWords(text, word, words) ==
    IF text = "" THEN (IF word = "" THEN words ELSE words \cup {word})
    ELSE IF Head(text) = " "
    THEN SplitWords(Tail(text), "",
                    IF word = "" THEN words ELSE words \cup {word})
    ELSE SplitWords(Tail(text), word \o Head(text), words)

split(text) == SplitWords(text, "", {})

\* One row of the dp table of lcs_length: prev is row i-1, cur the part of
\* row i filled so far, both starting at column 0.
RECURSIVE LcsRow(_, _, _, _)
LcsRow(prev, c1, s2, cur) ==
    IF Len(cur) = Len(s2) + 1 THEN cur
    ELSE LcsRow(prev, c1, s2,
                Append(cur,
                       IF c1 = SubSeq(s2, Len(cur), Len(cur))
                       THEN prev[Len(cur)] + 1
                       ELSE IF prev[Len(cur) + 1] > cur[Len(cur)]
                       THEN prev[Len(cur) + 1]
                       ELSE cur[Len(cur)]))

RECURSIVE LcsRows(_, _, _, _)
LcsRows(s1, s2, i, prev) ==
    IF i > Len(s1) THEN prev
    ELSE LcsRows(s1, s2, i + 1, LcsRow(prev, SubSeq(s1, i, i), s2, <<0>>))

lcs_length(s1, s2) ==
    LcsRows(s1, s2, 1, [j \in 1..(Len(s2) + 1) |-> 0])[Len(s2) + 1]

\* Lines 79-94 on the word sets.
jaccard_similarity(words1, words2) ==
    Ratio(Cardinality(words1 \cap words2), Cardinality(words1 \cup words2))

\* Lines 110-112.
char_similarity(text1, text2) ==
    IF Len(text1) > 0 \/ Len(text2) > 0
    THEN Ratio(lcs_length(text1, text2),
               IF Len(text1) > Len(text2) THEN Len(text1) ELSE Len(text2))
    ELSE Ratio(0, 1)

\* Lines 79-115, on the normalized strings.
WordOrCharSimilarity(text1, text2) ==
    IF split(text1) = {} \/ split(text2) = {} THEN Ratio(0, 1)
    ELSE MaxRatio(jaccard_similarity(split(text1), split(text2)),
                  char_similarity(text1, text2))

\* Variant: a substring match scores 0.8 unless the word or character
\* similarity is higher.
SimilarityOfNormalized_scoring_first(text1, text2) ==
    IF text1 = text2 THEN Ratio(1, 1)
    ELSE IF Contains(text1, text2) \/ Contains(text2, text1)
    THEN MaxRatio(Ratio(4, 5), WordOrCharSimilarity(text1, text2))
    ELSE WordOrCharSimilarity(text1, text2)

\* Lines 72-115, on the normalized strings.
SimilarityOfNormalized(text1, text2) ==
    IF text1 = text2 THEN Ratio(1, 1)
    ELSE IF Contains(text1, text2) \/ Contains(text2, text1)
    THEN Ratio(4, 5)
    ELSE WordOrCharSimilarity(text1, text2)

_calculate_similarity(text1, text2) ==
    IF text1 = "" \/ text2 = "" THEN Ratio(0, 1)
    ELSE SimilarityOfNormalized(strip(lower(text1)), strip(lower(text2)))

\* Texts to compare: empty, blank, equal up to case and blanks, one inside
\* the other, the same words in another order, and unrelated ones.
SimilarityTexts ==
    {"", " ", "cat", "Cat", " CAT ", "category", "act", "dog", "fabric",
     "fabrics", "red cotton", "cotton red", "blue cotton"}

SimilarityInputs ==
    [op : {"input"}, text1 : SimilarityTexts, text2 : SimilarityTexts,
     result : {Ratio(0, 1)}]

SimilarityInit ==
    /\ last \in SimilarityInputs
    /\ conversation_state = NewConversationState
    /\ healthy = FALSE
    /\ active_connections = NoConnections
    /\ handlers = NoConnections

\* One call of _calculate_similarity on the inputs drawn.
CalculateSimilarity ==
    /\ last.op = "input"
    /\ last' = [last EXCEPT
                   !.op = "_calculate_similarity",
                   !.result = _calculate_similarity(last.text1, last.text2)]
    /\ UNCHANGED <<conversation_state, healthy, active_connections, handlers>>

SimilarityNext == CalculateSimilarity

SimilaritySpec == SimilarityInit /\ [][SimilarityNext]_vars

\* ----------------------------------------- the matcher on its own
\* Values an extractor may hand over: the words of an utterance in any
\* case, with or without blanks around them, and the empty string.
MatchValues ==
    {"alpha version", "zzz", "Alpha", "ALPHA", " beta ", "be", "alphabet",
     "fs", "  fs        ", "sleeve", "raw edge issue", "needle", ""}

\* Candidate lists: the lists of technical_db and short lists with ties,
\* with a candidate inside another, and with none.
MatchLists ==
    {technical_db[k] : k \in DOMAIN technical_db} \cup
    {<<"Alpha", "Beta">>, <<"Beta", "Alpha">>, <<"Alphabet", "Alpha">>,
     <<"alpha beta", "beta alpha">>, <<>>}

MatchInputs ==
    [op : {"input"}, user_value : MatchValues, db_values : MatchLists,
     result : {NoMatch}]

MatchInit ==
    /\ last \in MatchInputs
    /\ conversation_state = NewConversationState
    /\ healthy = FALSE
    /\ active_connections = NoConnections
    /\ handlers = NoConnections

\* One call of _find_best_match on the inputs drawn.
FindBestMatch ==
    /\ last.op = "input"
    /\ last' = [last EXCEPT
                   !.op = "_find_best_match",
                   !.result = _find_best_match(last.user_value,
                                               last.db_values)]
    /\ UNCHANGED <<conversation_state, healthy, active_connections, handlers>>

MatchNext == FindBestMatch

MatchSpec == MatchInit /\ [][MatchNext]_vars

\* ------------------------------------- the phase function on its own
\* Slot mappings with database values, one for every set of slot names.
SlotChoices ==
    {[k \in K |-> FullReport[k].text] : K \in SUBSET DOMAIN slot_config}

\* Conversation states the phase function may be called in: every phase,
\* every set of collected slots, every turn count, with and without a
\* solved problem.
PhaseStates ==
    {[NewConversationState EXCEPT !.current_phase = p, !.slots = sl,
                                  !.turn_count = t, !.problem_count = c] :
        p \in ConversationPhase, sl \in SlotChoices, t \in 0..MaxTurns,
        c \in {0, 1}}

\* Intent labels for the phase function: the analyser's labels, no label,
\* and a label with keywords of both sets.
PhaseIntentLabels == IntentLabels \cup {"", "explain the new issue"}

PhaseInit ==
    /\ conversation_state \in PhaseStates
    /\ last = NoCall
    /\ healthy = FALSE
    /\ active_connections = NoConnections
    /\ handlers = NoConnections

\* One call of _determine_conversation_phase; the result is recorded.
DeterminePhase ==
    /\ \E label \in PhaseIntentLabels :
          last' = [NoCall EXCEPT
                      !.op = "_determine_conversation_phase",
                      !.pre_phase = conversation_state.current_phase,
                      !.intent = [ok |-> TRUE, shape |-> "dict",
                                  intent |-> label],
                      !.response = <<_determine_conversation_phase(
                                        conversation_state,
                                        [intent |-> label])>>]
    /\ UNCHANGED <<conversation_state, healthy, active_connections, handlers>>

PhaseNext == DeterminePhase

PhaseSpec == PhaseInit /\ [][PhaseNext]_vars

\* ------------------------------------------------------------------ claims
IsTurn == last.op = "process_user_message"

IsPrefix(a, b) == Len(a) <= Len(b) /\ SubSeq(b, 1, Len(a)) = a

\* Every text process_user_message can return.
ResponseTexts ==
    {<<"composed response">>,
     <<"Perfect! I have all the information needed.">>,
     <<"composed solution", post_solution_msg>>,
     <<canned_solution, canned_follow_up>>,
     <<"Welcome to Manufacturing Technical Support! I'm experiencing some technical issues">>,
     <<"I'm having some technical difficulties with my advanced features">>}
    \cup {<<"question: " \o n>> : n \in DOMAIN slot_config}

\* A well-formed ConversationState.
StateOK(st) ==
    /\ DOMAIN st = DOMAIN NewConversationState
    /\ st.current_phase \in ConversationPhase
    /\ st.turn_count \in Nat
    /\ st.problem_count \in Nat
    /\ \A i \in DOMAIN st.conversation_history :
          st.conversation_history[i].by \in {"user", "assistant"}

\* C1: a turn whose intent analysis succeeds, that starts in a phase other
\* than COMPLETION and POST_SOLUTION and ends with no required slot missing,
\* synthesizes a solution: problem_count grows by exactly one, exactly one
\* record is appended to solved_problems, and the phase becomes COMPLETION.
C1_SynthesisWhenSlotsComplete ==
    [][(/\ last'.op = "process_user_message"
        /\ last'.intent.ok
        /\ conversation_state.current_phase \notin {COMPLETION, POST_SOLUTION}
        /\ _get_missing_critical_slots(conversation_state'.slots) = <<>>)
       => (/\ conversation_state'.problem_count =
                 conversation_state.problem_count + 1
           /\ Len(conversation_state'.solved_problems) =
                 Len(conversation_state.solved_problems) + 1
           /\ IsPrefix(conversation_state.solved_problems,
                       conversation_state'.solved_problems)
           /\ conversation_state'.current_phase = COMPLETION)]_vars

\* A fresh session whose first utterance supplies all four slots has been
\* solved in that turn.
C1_Witness ==
    /\ IsTurn /\ last.intent.ok /\ last.pre_phase = GREETING
    /\ last.extraction.ok /\ last.extraction.result = FullReport
    /\ conversation_state.turn_count = 1
    /\ conversation_state.problem_count = 1
    /\ Len(conversation_state.solved_problems) = 1
    /\ conversation_state.current_phase = COMPLETION

\* C2: whenever a call changes the phase to NEW_PROBLEM, slots is empty
\* at the end of that call.
C2_NewProblemClearsSlots ==
    (/\ last.op \in {"process_user_message", "start_new_problem"}
     /\ last.pre_phase # NEW_PROBLEM
     /\ conversation_state.current_phase = NEW_PROBLEM)
    => conversation_state.slots = EmptyDict

C4_NeverPropagates ==
    IsTurn =>
        /\ ~last.raised
        /\ last.response \in ResponseTexts
        /\ StateOK(conversation_state)
        /\ conversation_state.turn_count < MaxTurns => ENABLED ProcessUserMessage

\* A turn in which the solution lookup and the solution composer both failed,
\* after an earlier turn in which the intent analysis failed.
C4_Witness ==
    /\ IsTurn /\ ~last.raised
    /\ last.failed = {"db_service", "solution_chain"}
    /\ last.response = <<canned_solution, canned_follow_up>>
    /\ conversation_state.turn_count = 2
    /\ Len(conversation_state.conversation_history) = 3

\* C5: in a session that has not solved a problem yet, once every
\* collaborator call succeeds and the utterances yield database values for
\* the missing slots, a solution is eventually synthesized and the phase
\* COMPLETION reached, whatever failed in earlier turns.
C5_EventuallySynthesized ==
    (healthy /\ conversation_state.problem_count = 0)
        ~> (/\ conversation_state.current_phase = COMPLETION
            /\ conversation_state.problem_count >= 1)

\* A session solved by a healthy turn after a turn whose intent analysis
\* failed.
C5_Witness ==
    /\ healthy /\ IsTurn
    /\ conversation_state.current_phase = COMPLETION
    /\ conversation_state.problem_count = 1
    /\ conversation_state.turn_count >= 2
    /\ Len(conversation_state.conversation_history) <
          2 * conversation_state.turn_count

\* C6: every key of slots is one of the four defined slot names, whatever
\* keys the extractor returns.
C6_SlotKeysInSchema ==
    DOMAIN conversation_state.slots \subseteq
        {"operation", "machine_type", "defect", "error"}

\* A turn whose extractor named the key "confidence" and nothing else.
C6_Witness ==
    /\ IsTurn /\ last.extraction.ok
    /\ "slot_chain" \in SeqToSet(last.calls)
    /\ Mentioned(last.extraction.result) = {"confidence"}

\* C7: over process_user_message and start_new_problem calls the earlier
\* solved_problems is a prefix of the later one and problem_count does not
\* decrease.
C7_LedgerAppendOnly ==
    [][last'.op \in {"process_user_message", "start_new_problem"}
       => /\ IsPrefix(conversation_state.solved_problems,
                      conversation_state'.solved_problems)
          /\ conversation_state'.problem_count >=
                conversation_state.problem_count]_vars

\* start_new_problem called with a solved problem on the ledger and slots
\* collected again since.
C7_Witness ==
    /\ last.op = "start_new_problem"
    /\ Len(conversation_state.solved_problems) = 1
    /\ conversation_state.slots = EmptyDict
    /\ conversation_state.turn_count >= 3

\* C8: between calls problem_count equals the number of records in
\* solved_problems, so the two summary fields are equal.
C8_CountMatchesLedger ==
    /\ conversation_state.problem_count =
          Len(conversation_state.solved_problems)
    /\ get_conversation_summary(conversation_state).solved_problems =
          get_conversation_summary(conversation_state).problem_count

\* A turn that finalized a solution through the canned-failure text.
C8_Witness ==
    /\ IsTurn /\ "solution_chain" \in last.failed
    /\ last.response = <<canned_solution, canned_follow_up>>
    /\ conversation_state.problem_count = 1
    /\ conversation_state.turn_count = 1

\* C9: a turn whose intent analysis fails calls no other collaborator,
\* returns a canned response, and leaves slots, current_phase, solved_problems
\* and problem_count as they were; turn_count grows by one.
C9_IntentFailureEndsTurn ==
    [][(last'.op = "process_user_message" /\ ~last'.intent.ok)
       => /\ last'.calls = <<"intent_chain">>
          /\ last'.response \in
                {<<"Welcome to Manufacturing Technical Support! I'm experiencing some technical issues">>,
                 <<"I'm having some technical difficulties with my advanced features">>}
          /\ conversation_state'.slots = conversation_state.slots
          /\ conversation_state'.current_phase =
                conversation_state.current_phase
          /\ conversation_state'.solved_problems =
                conversation_state.solved_problems
          /\ conversation_state'.problem_count =
                conversation_state.problem_count
          /\ conversation_state'.turn_count =
                conversation_state.turn_count + 1
          /\ IsPrefix(conversation_state.conversation_history,
                      conversation_state'.conversation_history)]_vars

\* An intent-analysis failure in a session that holds slots and a phase
\* other than the initial one.
C9_Witness ==
    /\ IsTurn /\ ~last.intent.ok
    /\ conversation_state.slots # EmptyDict
    /\ conversation_state.current_phase = CLARIFICATION
    /\ conversation_state.turn_count >= 3

\* C10: after every completed turn the history has 2 x turn_count entries
\* and the response returned to the caller is the last of them.
C10_HistoryAlternates ==
    IsTurn =>
        /\ Len(conversation_state.conversation_history) =
              2 * conversation_state.turn_count
        /\ conversation_state.conversation_history[
               Len(conversation_state.conversation_history)] =
              ResponseEntry(conversation_state.turn_count)

\* C11: turn_count counts the process_user_message calls of the session:
\* every call adds exactly one to it, whether the turn succeeds, falls back
\* or fails in a collaborator; start_new_problem leaves it alone and a fresh
\* session starts from 0.
C11_TurnCountCountsCalls ==
    [][/\ last'.op = "process_user_message"
          => conversation_state'.turn_count =
                conversation_state.turn_count + 1
       /\ last'.op = "start_new_problem"
          => conversation_state'.turn_count = conversation_state.turn_count
       /\ last'.op = "reset_conversation"
          => conversation_state'.turn_count = 0]_vars

\* Three calls of which two failed in the intent analysis and the third
\* fell back after a failed response composition.
C11_Witness ==
    /\ IsTurn /\ last.failed = {"response_chain"}
    /\ conversation_state.turn_count = 3
    /\ Len(conversation_state.conversation_history) = 4

\* The decision table of the phase machine, first matching row first.
DecisionTable(phase, missing_count, turn_count, intent) ==
    IF phase = POST_SOLUTION
    THEN IF \E k \in {"new", "another", "different", "problem", "issue"} :
                Contains(k, intent)
         THEN NEW_PROBLEM
         ELSE IF \E k \in {"clarify", "explain", "more", "detail"} :
                    Contains(k, intent)
         THEN CLARIFICATION
         ELSE POST_SOLUTION
    ELSE IF phase = COMPLETION THEN POST_SOLUTION
    ELSE IF phase = NEW_PROBLEM /\ missing_count > 2
    THEN PROBLEM_IDENTIFICATION
    ELSE IF phase = NEW_PROBLEM /\ missing_count > 0 THEN CLARIFICATION
    ELSE IF phase = NEW_PROBLEM THEN ANALYSIS
    ELSE IF turn_count <= 1 THEN GREETING
    ELSE IF missing_count > 2 THEN PROBLEM_IDENTIFICATION
    ELSE IF missing_count > 0 THEN CLARIFICATION
    ELSE IF missing_count = 0 THEN ANALYSIS
    ELSE PROBLEM_IDENTIFICATION

\* C12: for every phase, number of missing required slots, turn count and
\* intent label, _determine_conversation_phase returns the phase of the first
\* matching row of the decision table; nothing else in the state changes
\* the result.
C12_PhaseFollowsTable ==
    last.op = "_determine_conversation_phase" =>
        last.response =
            <<DecisionTable(
                  conversation_state.current_phase,
                  4 - Cardinality(DOMAIN conversation_state.slots),
                  conversation_state.turn_count,
                  last.intent.intent)>>

\* The call in POST_SOLUTION with a label that holds keywords of both rows:
\* the new-problem row comes first.
C12_Witness ==
    /\ last.op = "_determine_conversation_phase"
    /\ conversation_state.current_phase = POST_SOLUTION
    /\ last.intent.intent = "explain the new issue"
    /\ last.response = <<NEW_PROBLEM>>

\* The required slot names absent from the slots of st.
AbsentRequired(st) ==
    {n \in {"operation", "machine_type", "defect", "error"} :
        n \notin DOMAIN st.slots}

\* q lists the members of S once each, in the order operation,
\* machine_type, defect, error.
ListsInPriorityOrder(q, S) ==
    /\ SeqToSet(q) = S
    /\ Len(q) = Cardinality(S)
    /\ \A i, j \in DOMAIN q :
          i < j => \E a, b \in 1..4 :
                      /\ a < b
                      /\ <<"operation", "machine_type", "defect", "error">>[a]
                           = q[i]
                      /\ <<"operation", "machine_type", "defect", "error">>[b]
                           = q[j]

\* C13: in every reachable state the missing-required-slots list, as the
\* phase machine uses it and as the summary reports it, holds exactly the
\* required slot names absent from slots, once each, by ascending priority.
C13_MissingSlotsByPriority ==
    /\ ListsInPriorityOrder(
           _get_missing_critical_slots(conversation_state.slots),
           AbsentRequired(conversation_state))
    /\ get_conversation_summary(conversation_state).missing_slots
         = _get_missing_critical_slots(conversation_state.slots)

\* A turn has stored machine_type and defect: operation and error are
\* missing, operation first.
C13_Witness ==
    /\ IsTurn
    /\ DOMAIN conversation_state.slots = {"machine_type", "defect"}
    /\ get_conversation_summary(conversation_state).missing_slots
         = <<"operation", "error">>

\* C14: the first turn of a fresh session whose utterance yields no slot
\* leaves turn_count at 1, the phase at GREETING and slots empty.
C14_FirstTurnWithoutSlots ==
    [][(/\ conversation_state.turn_count = 0
        /\ conversation_state.current_phase = GREETING
        /\ conversation_state.slots = EmptyDict
        /\ last'.op = "process_user_message"
        /\ ValidatedSlots[last'.extraction] = EmptyDict)
       => /\ conversation_state'.turn_count = 1
          /\ conversation_state'.current_phase = GREETING
          /\ conversation_state'.slots = EmptyDict]_vars

\* The first turn has been answered; the extractor proposed a value that was
\* not accepted.
C14_Witness ==
    /\ IsTurn /\ ~last.raised /\ last.failed = {}
    /\ last.pre_phase = GREETING
    /\ last.extraction.ok
    /\ last.extraction.result # Report(EmptyDict)
    /\ ValidatedSlots[last.extraction] = EmptyDict
    /\ conversation_state.turn_count = 1
    /\ conversation_state.current_phase = GREETING
    /\ conversation_state.slots = EmptyDict
    /\ Len(conversation_state.conversation_history) = 2

\* C15: get_conversation_summary changes no field of the conversation
\* state, and a call that follows another call with no
\* process_user_message in between returns the same summary.
C15_SummaryReadOnlyIdempotent ==
    [][last'.op = "get_conversation_summary"
       => /\ conversation_state' = conversation_state
          /\ last.op = "get_conversation_summary"
               => last'.response = last.response]_vars

\* The summary was asked for twice after the second turn, with slots
\* collected.
C15_Witness ==
    /\ last.op = "get_conversation_summary"
    /\ Len(last.calls) = 2
    /\ last.response[1].turn_count = 2
    /\ last.response[1].collected_slots # EmptyDict
    /\ last.response[1].collected_slots = conversation_state.slots

\* C16: under any interleaving of the turns of different connections, a
\* process_user_message call on one session changes no field of the
\* conversation state of any other session.
C16_SessionsIndependent ==
    [][\A ws \in DOMAIN handlers \cap DOMAIN handlers' :
          (last'.op = "process_user_message" /\ last'.websocket # ws)
              => handlers'[ws].assistant = handlers[ws].assistant]_vars

\* Two handlers read the same connection id; ws1 has finished a turn with a
\* solution while the first turn of ws2 waits for the database.
C16_Witness ==
    /\ last.op = "process_user_message" /\ last.websocket = "ws1"
    /\ DOMAIN handlers = {"ws1", "ws2"}
    /\ handlers["ws1"].connection_id = handlers["ws2"].connection_id
    /\ handlers["ws1"].pc = "send"
    /\ handlers["ws1"].assistant.problem_count = 1
    /\ handlers["ws1"].assistant.current_phase = COMPLETION
    /\ handlers["ws2"].pc = "retrieve"
    /\ handlers["ws2"].assistant.turn_count = 1
    /\ handlers["ws2"].assistant.problem_count = 0

\* The containment score of two lower-cased strings as the fraction
\* num/den: len(shorter)/len(longer) when one contains the other, else 0.
ContainmentScore(a, b) ==
    IF (Contains(a, b) \/ Contains(b, a)) /\ (a # "" \/ b # "")
    THEN [num |-> IF Len(a) < Len(b) THEN Len(a) ELSE Len(b),
          den |-> IF Len(a) < Len(b) THEN Len(b) ELSE Len(a)]
    ELSE [num |-> 0, den |-> 1]

\* Candidate c of the list answers value v: it equals v ignoring case, or
\* its containment score is the maximum of the list and above 0.3.
Answers(c, v, candidates) ==
    \/ lower(c) = lower(v)
    \/ /\ 10 * ContainmentScore(lower(v), lower(c)).num
            > 3 * ContainmentScore(lower(v), lower(c)).den
       /\ \A d \in SeqToSet(candidates) :
             ContainmentScore(lower(v), lower(d)).num
                 * ContainmentScore(lower(v), lower(c)).den
             <= ContainmentScore(lower(v), lower(c)).num
                 * ContainmentScore(lower(v), lower(d)).den

\* The result is a candidate that answers v, or none when no candidate does.
BestMatchFor(v, candidates, result) ==
    IF result.some
    THEN /\ result.value \in SeqToSet(candidates)
         /\ Answers(result.value, v, candidates)
    ELSE \A c \in SeqToSet(candidates) : ~Answers(c, v, candidates)

\* The examples: 'alpha version' against [Alpha, Beta] gives Alpha, 'zzz'
\* gives none.
BestMatchExamples ==
    last.db_values = <<"Alpha", "Beta">> =>
        /\ last.user_value = "alpha version" => last.result = Match("Alpha")
        /\ last.user_value = "zzz" => last.result = NoMatch

\* C17 as stated: _find_best_match returns a candidate only if it equals the
\* value ignoring case or has the maximum containment score, above 0.3,
\* against the value; otherwise it returns none.
C17_BestMatch ==
    last.op = "_find_best_match" =>
        /\ BestMatchFor(last.user_value, last.db_values, last.result)
        /\ BestMatchExamples

\* C17 amended: the same, with the value trimmed of surrounding whitespace
\* before it is compared and measured.
C17_BestMatchOfTrimmedValue ==
    last.op = "_find_best_match" =>
        /\ BestMatchFor(strip(last.user_value), last.db_values, last.result)
        /\ BestMatchExamples

\* A value with blanks around it is matched although, untrimmed, it neither
\* equals the candidate nor scores above 0.3 against it (2/12).
C17_Witness ==
    /\ last.op = "_find_best_match"
    /\ last.user_value = "  fs        "
    /\ last.db_values = technical_db.machine_types
    /\ last.result = Match("FS")

\* The ratio r is the number n/d.
IsRatio(r, n, d) == r.num * d = n * r.den

\* C18: _calculate_similarity gives 0.0 if either input is empty; else 1.0
\* if the inputs are equal after lower-casing and trimming; else 0.8 if one
\* normalized string is inside the other, whatever the word and character
\* scores are.
C18_SimilarityShortCircuits ==
    last.op = "_calculate_similarity" =>
        IF last.text1 = "" \/ last.text2 = ""
        THEN IsRatio(last.result, 0, 1)
        ELSE IF strip(lower(last.text1)) = strip(lower(last.text2))
        THEN IsRatio(last.result, 1, 1)
        ELSE (\/ Contains(strip(lower(last.text1)), strip(lower(last.text2)))
              \/ Contains(strip(lower(last.text2)), strip(lower(last.text1))))
             => IsRatio(last.result, 4, 5)

\* 'fabric' is inside 'fabrics': the result is 0.8 although six of seven
\* characters are common.
C18_Witness ==
    /\ last.op = "_calculate_similarity"
    /\ last.text1 = "fabric" /\ last.text2 = "fabrics"
    /\ IsRatio(last.result, 4, 5)
    /\ 6 * 5 > 4 * 7

\* The slots a record of solved_problems was made from.
SlotsOfRecord(record) ==
    [k \in DOMAIN record \ {"problem_id", "timestamp"} |-> record[k]]

\* C19: a diagnostic cycle is solved at most once: a turn in CLARIFICATION
\* that finds the slots of the last solved problem still in place, and
\* extracts nothing new, adds no record and does not count a problem.
C19_SolvedAtMostOnce ==
    [][(/\ last'.op = "process_user_message"
        /\ conversation_state.current_phase = CLARIFICATION
        /\ conversation_state.solved_problems # <<>>
        /\ SlotsOfRecord(conversation_state.solved_problems[
                             Len(conversation_state.solved_problems)])
             = conversation_state.slots
        /\ ValidatedSlots[last'.extraction] = EmptyDict)
       => /\ conversation_state'.problem_count
               = conversation_state.problem_count
          /\ conversation_state'.solved_problems
               = conversation_state.solved_problems]_vars

ExtractionOfStrings ==
    /\ last'.op = "process_user_message"
    /\ "slot_chain" \in SeqToSet(last'.calls)
    /\ last'.extraction.ok
    /\ \A k \in Mentioned(last'.extraction.result) :
          last'.extraction.result[k].kind = "str"

\* C21: a value proposed for a slot with a canonical vocabulary that fails
\* the best match is checked by the slot's own validator and stored as it
\* came if it passes.
C21_RawValueKept ==
    [][ExtractionOfStrings =>
          \A k \in DOMAIN slot_config \cap Mentioned(last'.extraction.result) :
              (/\ db_key(k) \in DOMAIN technical_db
               /\ ~_find_best_match(last'.extraction.result[k].text,
                                    technical_db[db_key(k)]).some
               /\ validation(k, last'.extraction.result[k].text))
              => /\ k \in DOMAIN conversation_state'.slots
                 /\ conversation_state'.slots[k]
                      = last'.extraction.result[k].text]_vars

\* C22: in every state reached through process_user_message every value in
\* slots is an element of the database list of its slot.
C22_SlotValuesCanonical ==
    \A k \in DOMAIN conversation_state.slots :
        /\ db_key(k) \in DOMAIN technical_db
        /\ conversation_state.slots[k] \in SeqToSet(technical_db[db_key(k)])

\* The extractor said 'raw edge issue'; the slot holds 'Raw edge'.
C22_Witness ==
    /\ IsTurn
    /\ last.extraction.ok
    /\ last.extraction.result["defect"] = StrValue("raw edge issue")
    /\ "defect" \in DOMAIN conversation_state.slots
    /\ conversation_state.slots["defect"] = "Raw edge"

\* The turn just made is a new-problem request after a solution, or ends in
\* NEW_PROBLEM.
TurnIntoNewProblem ==
    \/ /\ conversation_state.current_phase \in {POST_SOLUTION, COMPLETION}
       /\ last'.intent.ok
       /\ \E w \in {"new", "another", "different", "problem", "issue"} :
             Contains(w, lower(last'.intent.intent))
    \/ conversation_state'.current_phase = NEW_PROBLEM

\* C23: across a turn that does not go into NEW_PROBLEM no key leaves
\* slots, and a value changes only to the value this turn's extraction
\* accepted for its key.
C23_SlotsOnlyMerged ==
    [][(last'.op = "process_user_message" /\ ~TurnIntoNewProblem)
       => /\ DOMAIN conversation_state.slots
               \subseteq DOMAIN conversation_state'.slots
          /\ \A k \in DOMAIN conversation_state.slots :
                conversation_state'.slots[k] # conversation_state.slots[k]
                => /\ "slot_chain" \in SeqToSet(last'.calls)
                   /\ k \in DOMAIN ValidatedSlots[last'.extraction]
                   /\ conversation_state'.slots[k]
                        = ValidatedSlots[last'.extraction][k]]_vars

\* A later turn named the machine type only: it was replaced, the operation
\* of an earlier turn is still there.
C23_Witness ==
    /\ IsTurn
    /\ conversation_state.turn_count >= 3
    /\ last.extraction = [ok |-> TRUE,
                          result |-> Report([machine_type |-> StrValue("OL")])]
    /\ DOMAIN conversation_state.slots = {"operation", "machine_type"}
    /\ conversation_state.slots["machine_type"] = "OL"
    /\ conversation_state.slots["operation"] = "Side Seam"
    /\ conversation_state.current_phase = CLARIFICATION

\* The extraction of the turn just made failed: the collaborator raised, or
\* its result holds a value for a slot that is no string, on which the
\* validation raises.
ExtractionFailed ==
    /\ last'.op = "process_user_message"
    /\ "slot_chain" \in SeqToSet(last'.calls)
    /\ \/ ~last'.extraction.ok
       \/ \E k \in DOMAIN slot_config \cap Mentioned(last'.extraction.result) :
             last'.extraction.result[k].kind # "str"

\* C24: when the extraction fails the slots stay as they were before it,
\* nothing validated so far is merged, and the turn goes on to a response.
C24_FailedExtractionMergesNothing ==
    [][ExtractionFailed
       => /\ conversation_state'.slots
               = HandleNewProblemRequest(BeginTurn(conversation_state),
                                         last'.intent).slots
          /\ ~last'.raised
          /\ last'.response # <<>>
          /\ \/ "response_chain" \in SeqToSet(last'.calls)
             \/ "solution_chain" \in SeqToSet(last'.calls)
          /\ Len(conversation_state'.conversation_history)
               = Len(conversation_state.conversation_history) + 2]_vars

\* The extractor named a database operation next to an error that is no
\* string: the operation was not stored and the turn was answered.
C24_Witness ==
    /\ IsTurn
    /\ last.extraction = [ok |-> TRUE, result |-> MixedReport]
    /\ "slot_chain" \in SeqToSet(last.calls)
    /\ "response_chain" \in SeqToSet(last.calls)
    /\ conversation_state.slots = EmptyDict
    /\ last.response # <<>>

\* Every line of the context names the speaker of its entry.
RightlyLabelled(context) ==
    \A i \in DOMAIN context.lines :
        context.lines[i].speaker =
            (IF context.lines[i].msg.by = "user" THEN "Technician"
             ELSE "Support")

\* C25: in the context built for the collaborators of a turn every user
\* utterance is labelled Technician and every response Support, whatever
\* the length of the history and whether or not a turn failed before.
C25_ContextLabels ==
    [][last'.op = "process_user_message"
       => RightlyLabelled(
              _get_conversation_context(BeginTurn(conversation_state)))]_vars

\* C26: active_connections never holds more than MAX_ACTIVE_CONNECTIONS
\* entries, and a connection closed with code 1008 has no handler state and
\* no entry.
C26_ConnectionLimit ==
    /\ Cardinality(DOMAIN active_connections) <= MAX_ACTIVE_CONNECTIONS
    /\ (last.op = "close" /\ last.code = 1008)
       => /\ last.websocket \notin DOMAIN handlers
          /\ \A c \in DOMAIN active_connections :
                active_connections[c].websocket # last.websocket

\* 'PROB' followed by k in three digits, for the first nine records.
PaddedIds ==
    <<"PROB001", "PROB002", "PROB003", "PROB004", "PROB005", "PROB006",
      "PROB007", "PROB008", "PROB009">>

\* C27: the k-th record of solved_problems carries the id PROB and k in
\* three digits, the ids of a session differ pairwise, and a record appended
\* by a turn holds the slots of the moment of synthesis.
C27_ProblemRecords ==
    [][/\ \A i \in DOMAIN conversation_state'.solved_problems :
             conversation_state'.solved_problems[i].problem_id = PaddedIds[i]
       /\ \A i, j \in DOMAIN conversation_state'.solved_problems :
             i # j => conversation_state'.solved_problems[i].problem_id
                       # conversation_state'.solved_problems[j].problem_id
       /\ (/\ last'.op = "process_user_message"
           /\ Len(conversation_state'.solved_problems)
                = Len(conversation_state.solved_problems) + 1)
          => SlotsOfRecord(conversation_state'.solved_problems[
                               Len(conversation_state'.solved_problems)])
              = conversation_state'.slots]_vars

\* Two records in one session, the second after a new-problem request that
\* cleared the slots of the first.
C27_Witness ==
    /\ IsTurn
    /\ last.pre_phase \in {NEW_PROBLEM, ANALYSIS, PROBLEM_IDENTIFICATION}
    /\ Len(conversation_state.solved_problems) = 2
    /\ conversation_state.solved_problems[1].problem_id = "PROB001"
    /\ conversation_state.solved_problems[2].problem_id = "PROB002"
    /\ SlotsOfRecord(conversation_state.solved_problems[2])
         = conversation_state.slots

\* C28: the collaborator calls of a turn are intent analysis once and
\* first, extraction at most once after it, then either response
\* composition once or solution lookup and solution composition once each;
\* a turn whose intent analysis failed calls nothing else, and no call is
\* made twice.
C28_CallsInOrder ==
    IsTurn =>
        /\ \A i, j \in DOMAIN last.calls : i # j => last.calls[i] # last.calls[j]
        /\ last.failed \subseteq SeqToSet(last.calls)
        /\ IF ~last.intent.ok
           THEN last.calls = <<"intent_chain">>
           ELSE \E extraction \in {<<>>, <<"slot_chain">>},
                   answer \in {<<"response_chain">>,
                               <<"db_service", "solution_chain">>} :
                    last.calls = <<"intent_chain">> \o extraction \o answer

\* A turn that called all four collaborators of a synthesis, two of which
\* failed.
C28_Witness ==
    /\ IsTurn
    /\ last.calls
         = <<"intent_chain", "slot_chain", "db_service", "solution_chain">>
    /\ last.failed = {"db_service", "solution_chain"}

\* C29: the response of every solution synthesis ends with the follow-up
\* prompt of a composed solution, also when the lookup or the composer
\* failed.
C29_SameFollowUp ==
    (IsTurn /\ "solution_chain" \in SeqToSet(last.calls))
        => /\ last.response # <<>>
           /\ last.response[Len(last.response)] = post_solution_msg

\* C30: a handler reads the next message only when no turn of its
\* connection is in flight: process_user_message is called only from
\* receive_text, and the handler is back in receive_text only after a send.
C30_TurnsOneAtATime ==
    [][/\ (last'.op = "process_user_message" /\ last'.step = "call")
          => /\ last'.websocket \in DOMAIN handlers
             /\ handlers[last'.websocket].pc = "receive"
       /\ \A ws \in DOMAIN handlers \cap DOMAIN handlers' :
             (handlers'[ws].pc = "receive" /\ handlers[ws].pc # "receive")
             => /\ handlers[ws].pc = "send"
                /\ last' = [op |-> "send_text", websocket |-> ws]]_vars

\* The second turn of ws1 waits for the database: the first was answered
\* and sent before the second message was read.
C30_Witness ==
    /\ last.op = "process_user_message" /\ last.step = "call"
    /\ last.websocket = "ws1"
    /\ handlers["ws1"].pc = "retrieve"
    /\ handlers["ws1"].assistant.turn_count = 2
    /\ Len(handlers["ws1"].assistant.conversation_history) = 3

====
